---- MODULE Spec2Model ----
(***************************************************************************)
(* A model of the QKD notebook (src/explore.ipynb): BB84 key generation    *)
(* (gen_bin_key), the text <-> binary conversions, the XOR cipher          *)
(* (encrypt / decrypt) and the "Example Usage" cell that chains them.      *)
(*                                                                         *)
(* A Python str is modelled as a sequence of code points, so '0' is 48 and *)
(* '1' is 49.  Python indexes from 0, TLA+ sequences from 1: position i of *)
(* the source is position i+1 here.                                        *)
(***************************************************************************)
EXTENDS Integers, Sequences, FiniteSets

VARIABLES
    pc,                  \* position of the notebook's control flow
    msg,                 \* usage cell: msg
    key_strength,        \* usage cell: key_strength, passed as min_key_length
    key,                 \* usage cell: key, the value gen_bin_key returned
    key2,                \* the key handed to decrypt (the usage cell hands key)
    encrypted_text,      \* usage cell: encrypted_text
    decrypted_text,      \* usage cell: decrypted_text
    num_bits,            \* gen_bin_key locals
    encoder_key,
    encoder_bases,
    decoder_bases,
    decoder_key,
    final_encoder_key,
    final_decoder_key,
    num_bits_to_compare,
    matched,             \* outcome of the comparison on line 117
    binary_text,         \* encrypt: text after line 169; decrypt: binary_encrypted_text
    local_key,           \* encrypt / decrypt: the local name key, stretched in the loop
    calls                \* the frames of gen_bin_key calls made side by side

\* What a step of the usage cell's own calls never touches.
callerVars == <<msg, key_strength, calls>>
genVars == <<num_bits, encoder_key, encoder_bases, decoder_bases, decoder_key,
             final_encoder_key, final_decoder_key, num_bits_to_compare, matched>>
cipherVars == <<binary_text, local_key>>
vars == <<pc, msg, key_strength, key, key2, encrypted_text, decrypted_text,
          num_bits, encoder_key, encoder_bases, decoder_bases, decoder_key,
          final_encoder_key, final_decoder_key, num_bits_to_compare, matched,
          binary_text, local_key, calls>>
\* Every name of the usage cell and of the calls it makes itself.
usageVars == <<pc, msg, key_strength, key, key2, encrypted_text, decrypted_text,
               genVars, cipherVars>>

(***************************************************************************)
(* Bounds of the model.                                                    *)
(***************************************************************************)
\* The largest num_bits = 4 * min_key_length a call of gen_bin_key may use.
MaxNumBits == 4
\* The longest text handed to encrypt.
MaxTextLen == 2
\* The longest key handed to encrypt and decrypt.
MaxKeyLen == 3

\* Code points texts are drawn from: 'I', 0xFF and one above the 8-bit range.
CodePoints == {73, 255, 300}

\* All sequences over S of length lo..hi.
SeqsOf(S, lo, hi) == UNION {[1..n -> S] : n \in lo..hi}

Texts == SeqsOf(CodePoints, 0, MaxTextLen)
BinaryKeys == SeqsOf({48, 49}, 1, MaxKeyLen)

\* The messages of the usage cell: "" and "HI".
UsageMsgs == {<<>>, <<72, 73>>}

(***************************************************************************)
(* gen_bin_key: the simulated circuit.                                     *)
(* No gate acts on two qubits, so each qubit is simulated on its own; the  *)
(* gates I, X, H keep it in one of |0>, |1>, |+>, |-> (up to phase).       *)
(***************************************************************************)
encode_gates(bit) == IF bit = 0 THEN "I" ELSE "X"
basis_gates(basis) == IF basis = "X" THEN "H" ELSE "I"

\* Mutant: H loses the sign of |1>, so H|1> is |+>.
ApplyGate_NoPhase(gate, q) ==
    CASE gate = "I" -> q
      [] gate = "X" -> (CASE q = "0" -> "1" [] q = "1" -> "0" [] OTHER -> q)
      [] gate = "H" -> (CASE q = "0" -> "+" [] q = "1" -> "+"
                          [] q = "+" -> "0" [] q = "-" -> "1")

ApplyGate(gate, q) ==
    CASE gate = "I" -> q
      [] gate = "X" -> (CASE q = "0" -> "1" [] q = "1" -> "0" [] OTHER -> q)
      [] gate = "H" -> (CASE q = "0" -> "+" [] q = "1" -> "-"
                          [] q = "+" -> "0" [] q = "-" -> "1")

\* Mutant: the decoder's basis gate is left out of the circuit.
QubitCircuit_NoDecoderBasis(encode_value, encoder_basis, decoder_basis) ==
    <<encode_gates(encode_value), basis_gates(encoder_basis)>>

\* The gates bb84_circuit applies to one qubit, in order.
QubitCircuit(encode_value, encoder_basis, decoder_basis) ==
    <<encode_gates(encode_value), basis_gates(encoder_basis), basis_gates(decoder_basis)>>

RECURSIVE RunGates(_, _)
RunGates(gates, q) ==
    IF gates = <<>> THEN q ELSE RunGates(Tail(gates), ApplyGate(Head(gates), q))

\* Mutant: a superposition always collapses to 0.
MeasureOutcomes_Biased(q) ==
    CASE q = "1" -> {1} [] OTHER -> {0}

\* Mutant: a noisy measurement, either value whatever the state.
MeasureOutcomes_Noisy(q) == {0, 1}

\* The values a computational-basis measurement of q can give.
MeasureOutcomes(q) ==
    CASE q = "0" -> {0} [] q = "1" -> {1} [] OTHER -> {0, 1}

\* The measurement records sim.run can return for the whole register.
SimulatorRuns(ekey, ebases, dbases) ==
    {dk \in [1..Len(ekey) -> {0, 1}] :
        \A i \in 1..Len(ekey) :
            dk[i] \in MeasureOutcomes(
                RunGates(QubitCircuit(ekey[i], ebases[i], dbases[i]), "0"))}

NumBits(min_key_length) == min_key_length * 4

(***************************************************************************)
(* gen_bin_key: sifting, the disclosed-prefix check and the return value.  *)
(***************************************************************************)
\* The loop of lines 110-113 over positions bit..num_bits, appending to acc.
RECURSIVE SiftLoop(_, _, _, _, _)
SiftLoop(raw, ebases, dbases, bit, acc) ==
    IF bit > Len(raw) THEN acc
    ELSE SiftLoop(raw, ebases, dbases, bit + 1,
                  IF ebases[bit] = dbases[bit] THEN Append(acc, raw[bit]) ELSE acc)

\* Mutant: the sifting test is inverted, positions with differing bases are kept.
Sifted_Differing(raw, ebases, dbases) ==
    SiftLoop(raw, ebases, [i \in 1..Len(dbases) |-> IF dbases[i] = "Z" THEN "X" ELSE "Z"],
             1, <<>>)

\* Mutant: the loop starts before the last position has been measured and
\* leaves position 0 out.
Sifted_SkipFirst(raw, ebases, dbases) == SiftLoop(raw, ebases, dbases, 2, <<>>)

\* The whole loop: the sifted copy of raw.
Sifted(raw, ebases, dbases) == SiftLoop(raw, ebases, dbases, 1, <<>>)

\* Mutant: the prefix length is rounded up.
NumBitsToCompare_RoundedUp(len) == (len + 1) \div 2

\* Mutant: at least one bit is always disclosed.
NumBitsToCompare_AtLeastOne(len) == IF len \div 2 < 1 THEN 1 ELSE len \div 2

\* int(len(final_encoder_key) * .5): the product is exact, int() drops the fraction.
NumBitsToCompare(len) == len \div 2

\* s[0:n] for n >= 0: a slice stops at the end of s.
Prefix(s, n) == SubSeq(s, 1, IF n < Len(s) THEN n ELSE Len(s))

\* Mutant: the compared prefix is not discarded.
Suffix_Whole(s, n) == s

\* Mutant: the compared prefix is kept and the rest discarded, s[:n].
Suffix_KeepsPrefix(s, n) == SubSeq(s, 1, IF n < Len(s) THEN n ELSE Len(s))

\* s[n:] for n >= 0: empty when n is at or past the end of s.
Suffix(s, n) == IF n < Len(s) THEN SubSeq(s, n + 1, Len(s)) ELSE <<>>

\* Mutant: the bit itself is joined, not its character.
StrOfBit_Raw(bit) == bit

\* str(bit) for a bit 0 or 1: the one-character string '0' or '1'.
StrOfBit(bit) == 48 + bit

\* "".join(str(bit) for bit in bits)
JoinBits(bits) == [i \in 1..Len(bits) |-> StrOfBit(bits[i])]

\* "There was an eavesdropper!"
AbortSignal ==
    <<84, 104, 101, 114, 101, 32, 119, 97, 115, 32, 97, 110, 32, 101, 97, 118,
      101, 115, 100, 114, 111, 112, 112, 101, 114, 33>>

Bases == {"Z", "X"}

Encode ==
    /\ pc = "init"
    /\ num_bits' = NumBits(key_strength)
    /\ encoder_key' \in [1..NumBits(key_strength) -> {0, 1}]
    /\ encoder_bases' \in [1..NumBits(key_strength) -> Bases]
    /\ pc' = "encoded"
    /\ UNCHANGED <<callerVars, key, key2, encrypted_text, decrypted_text, cipherVars,
                   decoder_bases, decoder_key, final_encoder_key, final_decoder_key,
                   num_bits_to_compare, matched>>

Decode ==
    /\ pc = "encoded"
    /\ decoder_bases' \in [1..num_bits -> Bases]
    /\ decoder_key' \in SimulatorRuns(encoder_key, encoder_bases, decoder_bases')
    /\ pc' = "measured"
    /\ UNCHANGED <<callerVars, key, key2, encrypted_text, decrypted_text, cipherVars,
                   num_bits, encoder_key, encoder_bases, final_encoder_key,
                   final_decoder_key, num_bits_to_compare, matched>>

Sift ==
    /\ pc = "measured"
    /\ final_encoder_key' = Sifted(encoder_key, encoder_bases, decoder_bases)
    /\ final_decoder_key' = Sifted(decoder_key, encoder_bases, decoder_bases)
    /\ pc' = "sifted"
    /\ UNCHANGED <<callerVars, key, key2, encrypted_text, decrypted_text, cipherVars,
                   num_bits, encoder_key, encoder_bases, decoder_bases, decoder_key,
                   num_bits_to_compare, matched>>

\* Lines 116-117: the prefix length and the comparison of the two prefixes.
EavesdropperCheck ==
    /\ pc = "sifted"
    /\ num_bits_to_compare' = NumBitsToCompare(Len(final_encoder_key))
    /\ matched' = (Prefix(final_encoder_key, num_bits_to_compare')
                     = Prefix(final_decoder_key, num_bits_to_compare'))
    /\ pc' = "checked"
    /\ UNCHANGED <<callerVars, key, key2, encrypted_text, decrypted_text, cipherVars,
                   num_bits, encoder_key, encoder_bases, decoder_bases, decoder_key,
                   final_encoder_key, final_decoder_key>>

\* Lines 118-123 and line 236: both branches of the if, and key = gen_bin_key(...).
Return ==
    /\ pc = "checked"
    /\ IF matched
       THEN /\ final_encoder_key' = Suffix(final_encoder_key, num_bits_to_compare)
            /\ final_decoder_key' = Suffix(final_decoder_key, num_bits_to_compare)
            /\ key' = JoinBits(final_encoder_key')
            /\ pc' = "success"
       ELSE /\ key' = AbortSignal
            /\ pc' = "aborted"
            /\ UNCHANGED <<final_encoder_key, final_decoder_key>>
    /\ key2' = key'
    /\ UNCHANGED <<callerVars, encrypted_text, decrypted_text, cipherVars,
                   num_bits, encoder_key, encoder_bases, decoder_bases, decoder_key,
                   num_bits_to_compare, matched>>

\* The locals of gen_bin_key are gone once the caller goes on.
GenFrameReleased ==
    /\ num_bits' = 0
    /\ encoder_key' = <<>>
    /\ encoder_bases' = <<>>
    /\ decoder_bases' = <<>>
    /\ decoder_key' = <<>>
    /\ final_encoder_key' = <<>>
    /\ final_decoder_key' = <<>>
    /\ num_bits_to_compare' = 0
    /\ matched' = FALSE

(***************************************************************************)
(* Text <-> binary conversions.                                            *)
(***************************************************************************)
\* The binary digits of n >= 0, most significant first, as '0'/'1' characters.
RECURSIVE BinDigits(_)
BinDigits(n) ==
    IF n < 2 THEN <<48 + n>> ELSE Append(BinDigits(n \div 2), 48 + (n % 2))

\* Mutant: format(n, 'b'), no padding.
Format08b_NoPad(n) == BinDigits(n)

\* Mutant: the value is cut to its low 8 bits before it is formatted.
Format08b_Truncated(n) ==
    LET d == BinDigits(n % 256)
    IN  IF Len(d) >= 8 THEN d ELSE [i \in 1..(8 - Len(d)) |-> 48] \o d

\* format(n, '08b'): the digits, zero-padded on the left to a width of at least 8.
Format08b(n) ==
    LET d == BinDigits(n)
    IN  IF Len(d) >= 8 THEN d ELSE [i \in 1..(8 - Len(d)) |-> 48] \o d

RECURSIVE JoinFormat(_)
JoinFormat(text) ==
    IF text = <<>> THEN <<>> ELSE Format08b(Head(text)) \o JoinFormat(Tail(text))

unicode_to_binary(text) == JoinFormat(text)

\* int(c) for a decimal digit character c.
IntOfChar(c) == c - 48

\* int(s, 2) for a non-empty string s of '0'/'1' characters.
RECURSIVE IntBase2(_)
IntBase2(s) ==
    IF s = <<>> THEN 0
    ELSE 2 * IntBase2(SubSeq(s, 1, Len(s) - 1)) + IntOfChar(s[Len(s)])

\* binary[i:i+8] for i = 8*(k-1), the k-th chunk.
Chunk(binary, k) ==
    SubSeq(binary, 8 * (k - 1) + 1, IF 8 * k < Len(binary) THEN 8 * k ELSE Len(binary))

\* One character per i in range(0, len(binary), 8); chr(v) is the code point v.
binary_to_unicode(binary) ==
    [k \in 1..((Len(binary) + 7) \div 8) |-> IntBase2(Chunk(binary, k))]

(***************************************************************************)
(* encrypt and decrypt.                                                    *)
(***************************************************************************)
IsBinaryStr(s) == \A i \in 1..Len(s) : s[i] \in {48, 49}

\* Mutant: a | b.
XorBit_Or(a, b) == IF a + b > 0 THEN 1 ELSE 0

\* a ^ b for bits a, b.
XorBit(a, b) == (a + b) % 2

\* The for loop of lines 174-175 (202-203): one output character per bit of text.
XorLoop(text, k) ==
    [i \in 1..Len(text) |-> StrOfBit(XorBit(IntOfChar(text[i]), IntOfChar(k[i])))]

\* Mutant: the key is padded with '0' characters to twice its length.
Doubled_Zeros(k) == k \o [i \in 1..Len(k) |-> 48]

\* key += key
Doubled(k) == k \o k

\* int() raises ValueError on a key character that is no binary digit it can use:
\* at line 175 for a non-digit, at line 149 for a digit above 1.
XorRaises(text, k) == ~IsBinaryStr(Prefix(k, Len(text)))

\* Line 238 and line 169: encrypt(msg, key) is entered.
EncryptCall ==
    /\ pc \in {"success", "aborted"}
    /\ binary_text' = unicode_to_binary(msg)
    /\ local_key' = key
    /\ pc' = "enc_loop"
    /\ GenFrameReleased
    /\ UNCHANGED <<callerVars, key, key2, encrypted_text, decrypted_text>>

\* Lines 170-171: one iteration of the while loop.
EncryptStretch ==
    /\ pc = "enc_loop"
    /\ Len(local_key) < Len(binary_text)
    /\ local_key' = Doubled(local_key)
    /\ UNCHANGED <<pc, callerVars, key, key2, encrypted_text, decrypted_text,
                   genVars, binary_text>>

\* Lines 173-177: the loop has ended; XOR, regroup, return to the usage cell.
EncryptXor ==
    /\ pc = "enc_loop"
    /\ ~(Len(local_key) < Len(binary_text))
    /\ IF XorRaises(binary_text, local_key)
       THEN /\ pc' = "error"
            /\ UNCHANGED encrypted_text
       ELSE /\ encrypted_text' = binary_to_unicode(XorLoop(binary_text, local_key))
            /\ pc' = "encrypted"
    /\ binary_text' = <<>>
    /\ local_key' = <<>>
    /\ UNCHANGED <<callerVars, key, key2, decrypted_text, genVars>>

\* Line 197: decrypt(text, key2) is entered.
DecryptCallWith(text) ==
    /\ pc = "encrypted"
    /\ binary_text' = unicode_to_binary(text)
    /\ local_key' = key2
    /\ pc' = "dec_loop"
    /\ UNCHANGED <<callerVars, key, key2, encrypted_text, decrypted_text, genVars>>

\* Line 240: decrypt(encrypted_text, key).
DecryptCall == DecryptCallWith(encrypted_text)

\* decrypt called on the text encrypt was called on.
DecryptSameText == DecryptCallWith(msg)

\* Mutant: decrypt stretches the key by putting its mirror image behind it.
DecryptStretch_Mirrored ==
    /\ pc = "dec_loop"
    /\ Len(local_key) < Len(binary_text)
    /\ local_key' = local_key \o [i \in 1..Len(local_key) |-> local_key[Len(local_key) + 1 - i]]
    /\ UNCHANGED <<pc, callerVars, key, key2, encrypted_text, decrypted_text,
                   genVars, binary_text>>

\* Lines 198-199: one iteration of the while loop.
DecryptStretch ==
    /\ pc = "dec_loop"
    /\ Len(local_key) < Len(binary_text)
    /\ local_key' = Doubled(local_key)
    /\ UNCHANGED <<pc, callerVars, key, key2, encrypted_text, decrypted_text,
                   genVars, binary_text>>

\* Lines 201-205: the loop has ended; XOR, regroup, return to the usage cell.
DecryptXor ==
    /\ pc = "dec_loop"
    /\ ~(Len(local_key) < Len(binary_text))
    /\ IF XorRaises(binary_text, local_key)
       THEN /\ pc' = "error"
            /\ UNCHANGED decrypted_text
       ELSE /\ decrypted_text' = binary_to_unicode(XorLoop(binary_text, local_key))
            /\ pc' = "done"
    /\ binary_text' = <<>>
    /\ local_key' = <<>>
    /\ UNCHANGED <<callerVars, key, key2, encrypted_text, genVars>>

(***************************************************************************)
(* gen_bin_key called more than once: callers side by side, each call with *)
(* its own frame of locals, and a caller calling again after a return.     *)
(***************************************************************************)
CallIds == {1, 2}

\* The arguments the side-by-side callers pass.
SideKeyLengths == {k \in 1..MaxNumBits : NumBits(k) <= MaxNumBits}

\* The frame of a call that has not run a statement yet. A call is followed
\* in two steps, one for each party of the protocol: the first person's lines
\* 66-86 and the second person's lines 88-123. The callers take these steps in
\* any order. The names written by lines 88-123 live and die within the
\* second step.
FreshFrame(min_key_length) ==
    [pc |-> "init", min_key_length |-> min_key_length, num_bits |-> 0,
     encoder_key |-> <<>>, encoder_bases |-> <<>>, result |-> <<>>]

\* What is left of a call that has returned: its locals are gone, the caller
\* holds the returned string.
ReturnedFrame(min_key_length, outcome, result) ==
    [FreshFrame(min_key_length) EXCEPT !.pc = outcome, !.result = result]

\* Lines 108-123 on the draws and the measurement record of one call: the
\* outcome and the returned string.
CallOutcome(ek, eb, db, dk) ==
    LET fe == Sifted(ek, eb, db)
        fd == Sifted(dk, eb, db)
        n  == NumBitsToCompare(Len(fe))
    IN  IF Prefix(fe, n) = Prefix(fd, n)
        THEN <<"success", JoinBits(Suffix(fe, n))>>
        ELSE <<"aborted", AbortSignal>>

\* Every outcome lines 88-123 can give a call that has encoded ek in the bases
\* eb: one for each draw of line 89 and each measurement record of line 106.
ReceiveOutcomes ==
    [x \in UNION {{<<ek, eb>> : ek \in [1..NumBits(k) -> {0, 1}],
                                eb \in [1..NumBits(k) -> Bases]} : k \in SideKeyLengths} |->
        UNION {{CallOutcome(x[1], x[2], db, dk) : dk \in SimulatorRuns(x[1], x[2], db)} :
               db \in [1..Len(x[1]) -> Bases]}]

\* Lines 66-86 in the frame of call c.
CallEncode(c) ==
    /\ calls[c].pc = "init"
    /\ \E ek \in [1..NumBits(calls[c].min_key_length) -> {0, 1}],
          eb \in [1..NumBits(calls[c].min_key_length) -> Bases] :
          calls' = [calls EXCEPT ![c] =
                      [calls[c] EXCEPT !.pc = "encoded",
                                       !.num_bits = NumBits(calls[c].min_key_length),
                                       !.encoder_key = ek,
                                       !.encoder_bases = eb]]
    /\ UNCHANGED usageVars

\* Mutant: the returned string is kept in a module-level name, which every
\* caller reads as its result.
CallReceive_SharedResult(c) ==
    LET f == calls[c]
    IN  /\ f.pc = "encoded"
        /\ \E o \in ReceiveOutcomes[<<f.encoder_key, f.encoder_bases>>] :
              calls' = [d \in CallIds |->
                          IF d = c
                          THEN ReturnedFrame(f.min_key_length, o[1], o[2])
                          ELSE [calls[d] EXCEPT !.result = o[2]]]
        /\ UNCHANGED usageVars

\* Lines 88-123 in the frame of call c: the decoder's draw, the simulation,
\* sifting, the check and the return, after which the frame is gone.
CallReceive(c) ==
    LET f == calls[c]
    IN  /\ f.pc = "encoded"
        /\ \E o \in ReceiveOutcomes[<<f.encoder_key, f.encoder_bases>>] :
              calls' = [calls EXCEPT ![c] = ReturnedFrame(f.min_key_length, o[1], o[2])]
        /\ UNCHANGED usageVars

\* The caller of call c calls gen_bin_key again: a new frame, nothing kept.
CallAgain(c) ==
    /\ calls[c].pc \in {"success", "aborted"}
    /\ \E k \in SideKeyLengths :
          calls' = [calls EXCEPT ![c] = FreshFrame(k)]
    /\ UNCHANGED usageVars

\* No call is made beside the usage cell's own.
NoSideCalls == calls = [c \in CallIds |-> FreshFrame(1)]

(***************************************************************************)
(* Specifications.                                                         *)
(***************************************************************************)
NoGenFrame ==
    /\ num_bits = 0
    /\ encoder_key = <<>>
    /\ encoder_bases = <<>>
    /\ decoder_bases = <<>>
    /\ decoder_key = <<>>
    /\ final_encoder_key = <<>>
    /\ final_decoder_key = <<>>
    /\ num_bits_to_compare = 0
    /\ matched = FALSE

NoCipherFrame ==
    /\ binary_text = <<>>
    /\ local_key = <<>>
    /\ encrypted_text = <<>>
    /\ decrypted_text = <<>>

\* The usage cell: gen_bin_key, then encrypt, then decrypt with the same key.
Init ==
    /\ pc = "init"
    /\ msg \in UsageMsgs
    /\ key_strength \in {k \in 1..MaxNumBits : NumBits(k) <= MaxNumBits}
    /\ key = <<>>
    /\ key2 = <<>>
    /\ NoGenFrame
    /\ NoCipherFrame
    /\ NoSideCalls

Next ==
    \/ Encode
    \/ Decode
    \/ Sift
    \/ EavesdropperCheck
    \/ Return
    \/ EncryptCall
    \/ EncryptStretch
    \/ EncryptXor
    \/ DecryptCall
    \/ DecryptStretch
    \/ DecryptXor

Spec == Init /\ [][Next]_vars

\* The interpreter runs the next statement whenever there is one.
FairSpec == Spec /\ WF_vars(Next)

\* Lines 115-123 as a function of the two sifted sequences.
InitCheck ==
    /\ pc = "sifted"
    /\ msg = <<>>
    /\ key_strength \in {k \in 1..MaxNumBits : NumBits(k) <= MaxNumBits}
    /\ key = <<>>
    /\ key2 = <<>>
    /\ \E len \in 0..MaxNumBits :
          /\ final_encoder_key \in [1..len -> {0, 1}]
          /\ final_decoder_key \in [1..len -> {0, 1}]
    /\ num_bits = NumBits(key_strength)
    /\ encoder_key = <<>>
    /\ encoder_bases = <<>>
    /\ decoder_bases = <<>>
    /\ decoder_key = <<>>
    /\ num_bits_to_compare = 0
    /\ matched = FALSE
    /\ NoCipherFrame
    /\ NoSideCalls

NextCheck ==
    \/ EavesdropperCheck
    \/ Return

SpecCheck == InitCheck /\ [][NextCheck]_vars

\* encrypt and decrypt as functions of a text and of the two keys handed to them.
InitCipher ==
    /\ pc = "success"
    /\ msg \in Texts
    /\ key_strength = 1
    /\ key \in BinaryKeys
    /\ key2 \in BinaryKeys
    /\ NoGenFrame
    /\ NoCipherFrame
    /\ NoSideCalls

NextCipher ==
    \/ EncryptCall
    \/ EncryptStretch
    \/ EncryptXor
    \/ DecryptCall
    \/ DecryptStretch
    \/ DecryptXor

SpecCipher == InitCipher /\ [][NextCipher]_vars

\* Two callers of gen_bin_key side by side, each calling again and again.
InitSideBySide ==
    /\ pc = "init"
    /\ msg = <<>>
    /\ key_strength = 1
    /\ key = <<>>
    /\ key2 = <<>>
    /\ NoGenFrame
    /\ NoCipherFrame
    /\ calls \in [CallIds -> {FreshFrame(k) : k \in SideKeyLengths}]

NextSideBySide ==
    \E c \in CallIds :
        \/ CallEncode(c)
        \/ CallReceive(c)
        \/ CallAgain(c)

SpecSideBySide == InitSideBySide /\ [][NextSideBySide]_vars

\* encrypt and decrypt called on the same text with the same key.
InitSameCall ==
    /\ InitCipher
    /\ key2 = key

NextSameCall ==
    \/ EncryptCall
    \/ EncryptStretch
    \/ EncryptXor
    \/ DecryptSameText
    \/ DecryptStretch
    \/ DecryptXor

SpecSameCall == InitSameCall /\ [][NextSameCall]_vars

\* encrypt, then decrypt with the same key, on a text of code points 0..255.
InitRoundTrip ==
    /\ InitCipher
    /\ key2 = key
    /\ \A i \in 1..Len(msg) : msg[i] \in 0..255

SpecRoundTrip == InitRoundTrip /\ [][NextCipher]_vars

\* The interpreter runs the next statement whenever there is one.
FairSpecRoundTrip == SpecRoundTrip /\ WF_vars(NextCipher)

(***************************************************************************)
(* Properties.                                                             *)
(***************************************************************************)
Measured == pc \in {"measured", "sifted", "checked", "success", "aborted"}

Returned == pc \in {"success", "aborted"}

\* Every character of text has a code point in 0..255.
InRange(text) == \A i \in 1..Len(text) : text[i] \in 0..255

\* C1: once the register is measured, at every position where the two bases
\* are equal the measured bit is the encoded bit.
C1_MeasurementDeterminism ==
    Measured =>
        \A i \in 1..num_bits :
            encoder_bases[i] = decoder_bases[i] => decoder_key[i] = encoder_key[i]

\* C1 witness: a measured register with a matching X position encoding 1, a
\* matching Z position encoding 0 and a differing position measured wrongly.
C1_Witness ==
    /\ pc = "measured"
    /\ \E i \in 1..num_bits :
         encoder_bases[i] = "X" /\ decoder_bases[i] = "X" /\ encoder_key[i] = 1
    /\ \E i \in 1..num_bits :
         encoder_bases[i] = "Z" /\ decoder_bases[i] = "Z" /\ encoder_key[i] = 0
    /\ \E i \in 1..num_bits :
         encoder_bases[i] # decoder_bases[i] /\ decoder_key[i] # encoder_key[i]

\* C2: the comparison of the disclosed prefixes never fails, so gen_bin_key
\* never takes the abort branch and never returns "There was an eavesdropper!".
C2_AbortUnreachable ==
    /\ pc # "aborted"
    /\ pc = "checked" => matched
    /\ Returned => key # AbortSignal

\* C2 witness: a key was returned after a comparison of at least one bit, in a
\* run where the decoder measured a wrong bit at a differing position.
C2_Witness ==
    /\ pc = "success"
    /\ num_bits_to_compare >= 1
    /\ \E i \in 1..num_bits :
         encoder_bases[i] # decoder_bases[i] /\ decoder_key[i] # encoder_key[i]

\* C3: every call of gen_bin_key returns, and what it returns is a string of
\* '0'/'1' characters or the abort message.
C3_TerminatesWithKeyOrAbort ==
    /\ <>Returned
    /\ [](Returned => (IsBinaryStr(key) \/ key = AbortSignal))

\* C3 witness: a call has returned a key of two characters.
C3_Witness == pc = "success" /\ Len(key) = 2 /\ key[1] # key[2]

\* C4 as stated: a returned key is at least min_key_length long.
C4_KeyAtLeastMinLength == pc = "success" => Len(key) >= key_strength

MatchingPositions == {i \in 1..num_bits : encoder_bases[i] = decoder_bases[i]}

\* The k-th position with equal bases, in ascending order.
KthMatching(k) ==
    CHOOSE j \in MatchingPositions : Cardinality({m \in MatchingPositions : m <= j}) = k

\* C5: after sifting both sequences have one element per position with equal
\* bases, and their k-th elements are the two raw bits of the k-th such position.
C5_SiftingCorrect ==
    pc = "sifted" =>
        /\ Len(final_encoder_key) = Cardinality(MatchingPositions)
        /\ Len(final_decoder_key) = Cardinality(MatchingPositions)
        /\ \A k \in 1..Cardinality(MatchingPositions) :
              /\ final_encoder_key[k] = encoder_key[KthMatching(k)]
              /\ final_decoder_key[k] = decoder_key[KthMatching(k)]

\* C5 witness: sifting kept two positions and dropped an earlier one whose
\* measured bit differs from the encoded bit, and one between them.
C5_Witness ==
    /\ pc = "sifted"
    /\ MatchingPositions = {2, 4}
    /\ decoder_key[1] # encoder_key[1]
    /\ encoder_key[2] # encoder_key[4]

\* C6: when the first floor(L/2) elements of the two sifted sequences of length L
\* are equal, the check succeeds and the returned key is the characters of
\* elements floor(L/2)..L-1 of the encoder's sequence; floor(L/2) <= L.
C6_CheckReturnsSuffix ==
    [][pc = "checked" =>
         LET L == Len(final_encoder_key)
             n == CHOOSE m \in 0..L : 2 * m <= L /\ L < 2 * m + 2
         IN  /\ num_bits_to_compare = n
             /\ n <= L
             /\ (\A i \in 1..n : final_encoder_key[i] = final_decoder_key[i]) =>
                   /\ pc' = "success"
                   /\ Len(key') = L - n
                   /\ \A i \in 1..(L - n) : key'[i] = 48 + final_encoder_key[n + i]]_vars

\* C6 witness: the check succeeded on sequences of odd length that agree on the
\* prefix and differ after it.
C6_Witness ==
    /\ pc = "success"
    /\ num_bits_to_compare = 1
    /\ Len(key) = 2
    /\ final_decoder_key # final_encoder_key

\* C7: a returned key has only '0'/'1' characters and fewer than num_bits of them.
C7_KeyShorterThanNumBits ==
    pc = "success" => (IsBinaryStr(key) /\ Len(key) < num_bits)

\* C7 witness: every basis matched, the longest key there is was returned.
C7_Witness ==
    /\ pc = "success"
    /\ encoder_bases = decoder_bases
    /\ 2 * Len(key) = num_bits

\* C8: with one key for both calls and a text of code points 0..255, encrypt and
\* decrypt both return and decrypt gives the text back.
C8_RoundTrip ==
    (pc = "success" /\ InRange(msg) /\ key2 = key /\ key # <<>>)
        ~> (pc = "done" /\ decrypted_text = msg)

\* C8 witness: a two-character text went through both calls with a key of three
\* bits, and its ciphertext differs from it.
C8_Witness ==
    /\ pc = "done"
    /\ key2 = key
    /\ InRange(msg)
    /\ Len(msg) = 2
    /\ Len(key) = 3
    /\ encrypted_text # msg
    /\ decrypted_text = msg

\* C9 as stated: the usage cell runs to its end and decrypts to the message.
C9_UsageCompletes == <>(pc = "done" /\ decrypted_text = msg)

\* C10 as stated: decrypting with a different key never gives the text back.
C10_MismatchedKeysDiffer ==
    (pc = "done" /\ InRange(msg) /\ key2 # key) => decrypted_text # msg

\* Bit i (from 0) of a non-empty key k stretched by repetition.
StretchedBit(k, i) == k[(i % Len(k)) + 1]

\* C10 amended: decrypting with key2 what was encrypted with key gives a
\* different text exactly when the two stretched keys differ at some bit
\* position below 8 * len(text).
C10_DiffersIffStretchedKeysDiffer ==
    (pc = "done" /\ InRange(msg)) =>
        ((decrypted_text # msg) <=>
            (\E i \in 0..(8 * Len(msg) - 1) : StretchedBit(key, i) # StretchedBit(key2, i)))

\* C10 witness: two different keys, and the decrypted text differs from the text.
C10_Witness ==
    /\ pc = "done"
    /\ InRange(msg)
    /\ Len(msg) = 2
    /\ key2 # key
    /\ Len(key2) = Len(key)
    /\ decrypted_text # msg

\* C11: once the qubits are encoded, whatever bases the decoder draws, the
\* simulation can return every record that agrees with encoder_key at the
\* positions with equal bases: each position with differing bases can give 0
\* and can give 1, whatever the other positions give.
C11_MismatchedBasisGivesEitherBit ==
    pc = "encoded" =>
        \A db \in [1..num_bits -> Bases] :
            \A dk \in [1..num_bits -> {0, 1}] :
                (\A i \in 1..num_bits : encoder_bases[i] = db[i] => dk[i] = encoder_key[i])
                    => ENABLED (decoder_bases' = db /\ decoder_key' = dk /\ Decode)

\* C11 witness: no basis matches, and the measured bits equal the encoded bit
\* at two positions and differ from it at the two others.
C11_Witness ==
    /\ pc = "measured"
    /\ \A i \in 1..num_bits : encoder_bases[i] # decoder_bases[i]
    /\ encoder_key = <<0, 0, 1, 1>>
    /\ decoder_key = <<0, 1, 0, 1>>

\* INIT, ENCODED, MEASURED, SIFTED, CHECKED are 0..4, both outcomes are 5, and
\* everything after the call is 6.
StageRank(p) ==
    CASE p = "init" -> 0
      [] p = "encoded" -> 1
      [] p = "measured" -> 2
      [] p = "sifted" -> 3
      [] p = "checked" -> 4
      [] p \in {"success", "aborted"} -> 5
      [] OTHER -> 6

\* What each stage holds when it is entered: the whole output of the stages
\* before it, for all num_bits positions, and nothing of the stages after it.
StageOutputsComplete ==
    /\ pc = "init" => NoGenFrame
    /\ pc = "encoded" =>
          /\ num_bits = 4 * key_strength
          /\ Len(encoder_key) = num_bits /\ Len(encoder_bases) = num_bits
          /\ decoder_bases = <<>> /\ decoder_key = <<>>
    /\ pc \in {"encoded", "measured"} =>
          final_encoder_key = <<>> /\ final_decoder_key = <<>>
    /\ pc = "measured" =>
          Len(decoder_bases) = num_bits /\ Len(decoder_key) = num_bits
    /\ pc = "sifted" =>
          /\ Len(final_encoder_key) = Cardinality(MatchingPositions)
          /\ Len(final_decoder_key) = Cardinality(MatchingPositions)
    /\ pc \in {"init", "encoded", "measured", "sifted"} =>
          num_bits_to_compare = 0 /\ matched = FALSE
    /\ pc \in {"init", "encoded", "measured", "sifted", "checked"} => key = <<>>
    /\ pc = "success" => (matched /\ key # AbortSignal)
    /\ pc = "aborted" => (~matched /\ key = AbortSignal)

\* C12: a call goes through INIT, ENCODED, MEASURED, SIFTED, CHECKED and then
\* one of SUCCESS and ABORTED, one stage at a time and never back; a stage is
\* entered with the whole output of the stage before it.
C12_StagesInOrder ==
    /\ []StageOutputsComplete
    /\ [][/\ StageRank(pc) < 5 => StageRank(pc') = StageRank(pc) + 1
          /\ StageRank(pc) >= 5 => StageRank(pc') = 6]_vars

\* C12 witness: a call that went through every stage and kept three of the
\* four positions.
C12_Witness ==
    /\ pc = "success"
    /\ Cardinality(MatchingPositions) = 3
    /\ num_bits_to_compare = 1
    /\ Len(key) = 2

\* C13: when no position has equal bases the sifted lists are empty, the prefix
\* length is 0, the comparison succeeds and the call returns the empty string
\* as its key, not the abort message.
C13_NoMatchGivesEmptyKey ==
    (Measured /\ MatchingPositions = {}) =>
        /\ pc \in {"sifted", "checked"} =>
              final_encoder_key = <<>> /\ final_decoder_key = <<>>
        /\ pc = "checked" => (num_bits_to_compare = 0 /\ matched)
        /\ Returned => (pc = "success" /\ num_bits_to_compare = 0 /\ key = <<>>)

\* C13 witness: a call returned with no position of equal bases.
C13_Witness ==
    /\ pc = "success"
    /\ num_bits = 4
    /\ MatchingPositions = {}
    /\ key = <<>>

\* The sifted length L of the call: the number of positions with equal bases.
SiftedLength == Cardinality(MatchingPositions)

\* C14 as stated: the returned key is strictly shorter than the sifted key,
\* which is strictly shorter than num_bits.
C14_KeyShorterThanSiftedShorterThanNumBits ==
    pc = "success" => (Len(key) < SiftedLength /\ SiftedLength < num_bits)

\* C14 amended: the returned key has L - floor(L/2) characters, so it is no
\* longer than the sifted key and strictly shorter exactly when L >= 2; the
\* sifted key is no longer than num_bits (and as long when every basis matches).
C14_KeyAtMostSiftedAtMostNumBits ==
    pc = "success" =>
        /\ 2 * Len(key) \in {SiftedLength, SiftedLength + 1}
        /\ Len(key) <= SiftedLength
        /\ (Len(key) < SiftedLength) <=> (SiftedLength >= 2)
        /\ SiftedLength <= num_bits
        /\ (SiftedLength = num_bits) <=> (encoder_bases = decoder_bases)

\* C14 witness: every basis matched, so the sifted key has num_bits elements,
\* and the returned key is shorter.
C14_Witness ==
    /\ pc = "success"
    /\ SiftedLength = num_bits
    /\ Len(key) < SiftedLength

\* What a call returns alone when it has encoded ek and the bases of the two
\* parties are equal at the positions M: the characters of the encoded bits at
\* the positions of M in order, from the floor(L/2)-th on, L the size of M.
ResultAlone(ek, M) ==
    LET L == Cardinality(M)
        Kth(k) == CHOOSE j \in M : Cardinality({m \in M : m <= j}) = k
    IN  [k \in 1..(L - (L \div 2)) |-> 48 + ek[Kth((L \div 2) + k)]]

\* C15: calls of gen_bin_key share nothing. A step of one call leaves the
\* frame of the other as it is; a call that starts, first or after a return,
\* starts from an empty frame and can make every draw whatever the other call
\* has done; and however the steps of the two calls are interleaved, a call
\* returns a key, and it can return exactly the strings it returns alone with
\* the draws in its frame.
C15_CallsIndependent ==
    /\ [](\A c \in CallIds :
            /\ calls[c].pc = "init" =>
                  /\ calls[c] = FreshFrame(calls[c].min_key_length)
                  /\ \A ek \in [1..NumBits(calls[c].min_key_length) -> {0, 1}],
                        eb \in [1..NumBits(calls[c].min_key_length) -> Bases] :
                        ENABLED (/\ CallEncode(c)
                                 /\ calls'[c].encoder_key = ek
                                 /\ calls'[c].encoder_bases = eb)
            /\ calls[c].pc = "encoded" =>
                  \A M \in SUBSET (1..calls[c].num_bits) :
                     ENABLED (/\ CallReceive(c)
                              /\ calls'[c].pc = "success"
                              /\ calls'[c].result = ResultAlone(calls[c].encoder_key, M))
            /\ calls[c].pc \notin {"init", "encoded"} =>
                  calls[c] = ReturnedFrame(calls[c].min_key_length, "success",
                                           calls[c].result))
    /\ [][\A c \in CallIds :
             /\ calls'[c] # calls[c] => \A d \in CallIds \ {c} : calls'[d] = calls[d]
             /\ (calls[c].pc = "encoded" /\ calls'[c].pc # "encoded") =>
                   \E M \in SUBSET (1..calls[c].num_bits) :
                      calls'[c].result = ResultAlone(calls[c].encoder_key, M)]_vars

\* C15 witness: both calls are between their two steps, each holding its own
\* key and bases, other than those of the other call.
C15_Witness ==
    /\ calls[1].pc = "encoded"
    /\ calls[2].pc = "encoded"
    /\ calls[1].encoder_key # calls[2].encoder_key
    /\ calls[1].encoder_bases # calls[2].encoder_bases

\* The number of binary digits of n >= 1: the w with 2^(w-1) <= n < 2^w.
BitLength(n) == CHOOSE w \in 1..32 : 2 ^ (w - 1) <= n /\ n < 2 ^ w

\* The bits unicode_to_binary emits for one character: 8 up to code point 255,
\* all the digits of the code point above it.
BitsOfChar(c) == IF c <= 255 THEN 8 ELSE BitLength(c)

RECURSIVE SumBitsOfChars(_)
SumBitsOfChars(text) ==
    IF text = <<>> THEN 0 ELSE BitsOfChar(Head(text)) + SumBitsOfChars(Tail(text))

\* The number a string of '0'/'1' characters denotes in base 2.
RECURSIVE ValueOfBits(_)
ValueOfBits(bits) ==
    IF bits = <<>> THEN 0
    ELSE (bits[1] - 48) * 2 ^ (Len(bits) - 1) + ValueOfBits(Tail(bits))

\* C16 as stated: unicode_to_binary emits exactly 8 bits per character, so the
\* bit string of every text has 8 * len(text) characters.
C16_EightBitsPerCharacter ==
    pc = "enc_loop" => Len(binary_text) = 8 * Len(msg)

\* C16 amended: a character up to code point 255 gives exactly 8 bits; a
\* character above 255 gives all the binary digits of its code point, more than
\* 8 and nothing cut off, so the bit string has 8 * len(text) characters exactly
\* when every code point is at most 255.
C16_EightBitsUpTo255AllDigitsAbove ==
    pc = "enc_loop" =>
        /\ Len(binary_text) = SumBitsOfChars(msg)
        /\ (Len(binary_text) = 8 * Len(msg)) <=> InRange(msg)
        /\ Len(msg) = 1 => ValueOfBits(binary_text) = msg[1]

\* C16 witness: encrypt has converted a text holding a code point above 255,
\* and the bit string has 17 characters for its two characters.
C16_Witness ==
    /\ pc = "enc_loop"
    /\ Len(msg) = 2
    /\ msg[1] > 255
    /\ msg[2] <= 255
    /\ Len(binary_text) = 17

\* While encrypt stretches a non-empty key: the local key has len(key) * 2^k
\* characters for a k >= 0 such that every shorter doubling was shorter than
\* the bit string, and its character i is key[i mod len(key)].
StretchedByDoubling ==
    (pc = "enc_loop" /\ key # <<>>) =>
        /\ \E k \in 0..Len(binary_text) :
              /\ Len(local_key) = Len(key) * 2 ^ k
              /\ \A j \in 0..(k - 1) : Len(key) * 2 ^ j < Len(binary_text)
        /\ \A i \in 0..(Len(local_key) - 1) : local_key[i + 1] = StretchedBit(key, i)

\* Output bit i of encrypt: text bit i XOR key[i mod len(key)], as a character.
OutputBits(bits, k) ==
    [i \in 1..Len(bits) |-> 48 + (((bits[i] - 48) + (StretchedBit(k, i - 1) - 48)) % 2)]

\* The bits of out regrouped 8 at a time, the last group holding what is left.
Regrouped(out) ==
    [c \in 1..((Len(out) + 7) \div 8) |->
        ValueOfBits(SubSeq(out, 8 * (c - 1) + 1,
                           IF 8 * c < Len(out) THEN 8 * c ELSE Len(out)))]

\* What encrypt has returned is the regrouped XOR of the text bits with the
\* key repeated, every character a code point in 0..255.
XorOfStretchedKey ==
    (pc = "encrypted" /\ key # <<>>) =>
        /\ encrypted_text = Regrouped(OutputBits(unicode_to_binary(msg), key))
        /\ \A c \in 1..Len(encrypted_text) : encrypted_text[c] \in 0..255

\* C17 as stated: for a non-empty key and a text of n bits, encrypt doubles
\* the key until it has at least n characters, output bit i is text bit i XOR
\* key[i mod len(key)], and the n output bits are regrouped 8 at a time into
\* len(text) characters with code points 0..255.
C17_StretchXorIntoLenTextCharacters ==
    /\ StretchedByDoubling
    /\ XorOfStretchedKey
    /\ (pc = "encrypted" /\ key # <<>>) => Len(encrypted_text) = Len(msg)

\* C17 amended: the same doubling and XOR; the n output bits are regrouped 8
\* at a time into ceil(n / 8) characters with code points 0..255, which is
\* len(text) characters when every code point of the text is at most 255 and
\* more than len(text) otherwise.
C17_StretchXorIntoCeilCharacters ==
    /\ StretchedByDoubling
    /\ XorOfStretchedKey
    /\ (pc = "encrypted" /\ key # <<>>) =>
          /\ Len(encrypted_text) = (SumBitsOfChars(msg) + 7) \div 8
          /\ InRange(msg) => Len(encrypted_text) = Len(msg)
          /\ ~InRange(msg) => Len(encrypted_text) > Len(msg)

\* C17 witness: encrypt has returned for a two-character text in range and a
\* three-character key of both digits, stretched 3, 6, 12, 24 and cut to 16.
C17_Witness ==
    /\ pc = "encrypted"
    /\ Len(msg) = 2
    /\ InRange(msg)
    /\ Len(key) = 3
    /\ key[1] # key[2]
    /\ encrypted_text # msg

\* C18: for every text and every binary key, decrypt(text, key) returns what
\* encrypt(text, key) returns, and no step of either changes the caller's text
\* or key.
C18_DecryptIsEncrypt ==
    /\ [](pc = "done" => decrypted_text = encrypted_text)
    /\ [][msg' = msg /\ key' = key /\ key2' = key2]_vars

\* C18 witness: both have returned for a two-character text, one code point
\* above 255, and a three-character key of both digits that was stretched.
C18_Witness ==
    /\ pc = "done"
    /\ Len(msg) = 2
    /\ ~InRange(msg)
    /\ Len(key) = 3
    /\ key[1] # key[3]
    /\ decrypted_text = encrypted_text
    /\ decrypted_text # msg

\* C19: in every run of gen_bin_key the two sifted keys are equal element by
\* element over their whole length, and whenever a key is returned the
\* decoder's remaining suffix equals the returned encoder suffix.
C19_KeyAgreement ==
    /\ pc \in {"sifted", "checked", "success", "aborted"} =>
          /\ Len(final_decoder_key) = Len(final_encoder_key)
          /\ \A i \in 1..Len(final_encoder_key) :
                final_decoder_key[i] = final_encoder_key[i]
    /\ pc = "success" =>
          /\ final_decoder_key = final_encoder_key
          /\ key = JoinBits(final_decoder_key)

\* C19 witness: a key of at least one bit is returned in a run where the
\* decoder measured a bit other than the one encoded at some position.
C19_Witness ==
    /\ pc = "success"
    /\ Len(final_encoder_key) >= 1
    /\ final_decoder_key = final_encoder_key
    /\ \E i \in 1..num_bits : decoder_key[i] # encoder_key[i]

====
